---- MODULE Spec2Model ----
(***************************************************************************)
(* Verification model of jama-mcp-server: the token-bucket RateLimiter,    *)
(* the JamaClientWrapper request gate, and the write tools (create,        *)
(* update, batch create, batch update).                                    *)
(*                                                                         *)
(* Tokens are counted in half tokens and time in clock ticks; in one tick   *)
(* `res` half tokens accrue (a tick is res / (2 * rate) seconds), so that   *)
(* "elapsed * rate" is elapsed * res.  With res = 1 fractional token counts *)
(* are reachable.  time.time() is taken to be non-decreasing.               *)
(***************************************************************************)
EXTENDS Integers, Sequences, FiniteSets, TLC

\* ------------------------------------------------------------------ bounds
Threads == {"t1", "t2"}
MaxCalls == 3
WindowCalls == 5
MaxRequests == 3
MaxToolCalls == 2
MaxSmallBatch == 3
MaxN == 2
MaxPatches == 2

\* ------------------------------------------------------- program constants
DefaultRate == 9
JamaLimit == 10

Min(a, b) == IF a <= b THEN a ELSE b
Max(a, b) == IF a >= b THEN a ELSE b

\* n whole tokens in the model's unit (half tokens)
Units(n) == 2 * n

VARIABLES
  res,        \* clock resolution: half tokens accrued per tick
  capacity,   \* RateLimiter.capacity (= rate = requests_per_second), half tokens
  tokens,     \* RateLimiter.tokens, half tokens
  elapsed,    \* time.time() - RateLimiter.last_update, ticks, saturated at capacity
  lock,       \* RateLimiter.lock: its holder, or "free"
  pc,         \* per thread: position inside acquire / try_acquire
  op,         \* per thread: the method being run
  want,       \* per thread: the tokens argument
  remaining,  \* per thread: time left of time.sleep(wait_time)
  ret,        \* what the call that returned last returned
  callsLeft,  \* calls the callers will still make, -1 for any number
  audit,      \* what this run keeps books of: "bank", "window" or "none"
  bank,       \* initial capacity plus the tokens accrued by elapsed time minus
              \* the tokens granted so far; not counted beyond 2 * capacity
  win,        \* age of the observed one-second window, -1 when none is open
  winCount    \* tokens granted inside the observed window

VARIABLES
  oauth,      \* JamaClientWrapper.oauth
  token_attr, \* whether the library client carries _JamaClient__oauth_token
  has_expiry, \* JamaClientWrapper._token_expiry is not None
  life,       \* _token_expiry - datetime.now() in whole minutes, -1 when past
  recreated,  \* how often _ensure_valid_token has replaced self._client
  rq,         \* per thread: position inside _make_request
  acq,        \* per thread: half tokens deducted for the current request
  checked,    \* per thread: _ensure_valid_token has returned for the request
  invoked,    \* per thread: calls of the underlying method for the request
  outcome     \* per thread: how the request ended

clvars == <<oauth, token_attr, has_expiry, life, recreated, rq, acq, checked,
            invoked, outcome>>

VARIABLES
  store,      \* JAMA: per name, the items of that name under parent 1 that
              \* post_item has created (2 stands for two or more)
  toolsLeft,  \* tool calls still to be made
  tool,       \* the tool function that was called
  blen,       \* len(items) / len(updates)
  bidx,       \* index of the batch loop
  bok,        \* len(created_items) / len(updated_items)
  bfail,      \* failed_item["index"], -1 while failed_item is None
  tpc,        \* position inside the tool
  args,       \* arguments of the running jama_create_item / jama_update_item
  attempt,    \* attempt number inside create_with_retry / _update_with_retry
  stages,     \* steps of the running item that have passed, in the order they passed
  posted,     \* successful post_item calls of the running jama_create_item
  lastCall,   \* the last call made to the JAMA client in this tool call
  raised,     \* the exception that left the tool, "none" if none
  result      \* the dictionary a batch tool returned

tlvars == <<store, toolsLeft, tool, blen, bidx, bok, bfail, tpc, args, attempt,
            stages, posted, lastCall, raised, result>>

VARIABLES
  fn,         \* the function under evaluation, "none" when there is none
  inp,        \* its arguments
  out,        \* what it returned or raised
  done        \* it has run

fnvars == <<fn, inp, out, done>>

rlvars == <<res, capacity, tokens, elapsed, lock, pc, op, want, remaining, ret,
            callsLeft, audit, bank, win, winCount>>

vars == <<rlvars, clvars, tlvars, fnvars>>

\* ---------------------------------------------------------- RateLimiter
\* RateLimiter.__init__
RLInit(caps, r, calls, obs) ==
  /\ res = r
  /\ capacity \in caps
  /\ tokens = capacity
  /\ elapsed = 0
  /\ lock = "free"
  /\ pc = [t \in Threads |-> "idle"]
  /\ op = [t \in Threads |-> "none"]
  /\ want = [t \in Threads |-> 0]
  /\ remaining = [t \in Threads |-> 0]
  /\ ret = "none"
  /\ callsLeft = calls
  /\ audit = obs
  /\ bank = capacity
  /\ win = -1
  /\ winCount = 0

\* a lock that never excludes anybody
LockFreeAlways == TRUE

\* threading.Lock: acquire succeeds only when nobody holds it
LockFree == lock = "free"

\* elapsed * self.rate
NewTokens(e) == e * res

\* ticks that make up at least d half tokens
Ticks(d) == (d + res - 1) \div res

\* ticks in one second: the time in which `rate` tokens accrue
OneSecond == Ticks(capacity)

\* the observed window: a grant may open it when none is open
Observe(n) ==
  \/ /\ win >= 0
     /\ winCount' = winCount + n
     /\ win' = win
  \/ /\ win = -1
     /\ \/ win' = 0 /\ winCount' = n
        \/ win' = -1 /\ winCount' = 0

\* a caller enters acquire(n) or try_acquire(n)
StartCall(t, m, n) ==
  /\ pc[t] = "idle"
  /\ callsLeft # 0
  /\ callsLeft' = IF callsLeft > 0 THEN callsLeft - 1 ELSE callsLeft
  /\ op' = [op EXCEPT ![t] = m]
  /\ want' = [want EXCEPT ![t] = Units(n)]
  /\ pc' = [pc EXCEPT ![t] = "lock"]
  /\ UNCHANGED <<ret, res, capacity, tokens, elapsed, lock, remaining, audit, bank,
                 win, winCount>>

\* with self.lock:  /  self.lock.acquire() after the sleep
TakeLock(t) ==
  /\ pc[t] = "lock"
  /\ LockFree
  /\ lock' = t
  /\ pc' = [pc EXCEPT ![t] = "refill"]
  /\ UNCHANGED <<res, capacity, tokens, elapsed, op, want, remaining, ret, callsLeft,
                 audit, bank, win, winCount>>

\* self._refill_tokens()
RefillTokens(t) ==
  /\ pc[t] = "refill"
  /\ tokens' = Min(capacity, tokens + NewTokens(elapsed))
  /\ elapsed' = 0
  /\ pc' = [pc EXCEPT ![t] = "check"]
  /\ UNCHANGED <<res, capacity, lock, op, want, remaining, ret, callsLeft, audit, bank,
                 win, winCount>>

\* the comparison made strict
EnoughStrict(t) == tokens > want[t]

\* if self.tokens >= tokens
Enough(t) == tokens >= want[t]

\* the test succeeded: the caller goes on to deduct
CheckEnough(t) ==
  /\ pc[t] = "check"
  /\ Enough(t)
  /\ pc' = [pc EXCEPT ![t] = "deduct"]
  /\ UNCHANGED <<res, capacity, tokens, elapsed, lock, op, want, remaining, ret,
                 callsLeft, audit, bank, win, winCount>>

\* self.tokens -= tokens; return (the with block releases the lock)
Deduct(t) ==
  /\ pc[t] = "deduct"
  /\ tokens' = tokens - want[t]
  /\ bank' = IF audit = "bank" THEN bank - want[t] ELSE bank
  /\ Observe(want[t])
  /\ lock' = IF lock = t THEN "free" ELSE lock
  /\ ret' = IF op[t] = "try_acquire" THEN "True" ELSE "None"
  /\ pc' = [pc EXCEPT ![t] = "idle"]
  /\ op' = [op EXCEPT ![t] = "none"]
  /\ want' = [want EXCEPT ![t] = 0]
  /\ UNCHANGED <<res, capacity, elapsed, remaining, callsLeft, audit>>

\* acquire, not enough tokens: compute wait_time = tokens_needed / self.rate,
\* release the lock, sleep (time.sleep sleeps at least that long)
CheckWait(t) ==
  /\ pc[t] = "check"
  /\ op[t] = "acquire"
  /\ ~Enough(t)
  /\ remaining' = [remaining EXCEPT ![t] = Ticks(want[t] - tokens)]
  /\ lock' = IF lock = t THEN "free" ELSE lock
  /\ pc' = [pc EXCEPT ![t] = "sleep"]
  /\ UNCHANGED <<res, capacity, tokens, elapsed, op, want, ret, callsLeft, audit, bank,
                 win, winCount>>

\* time.sleep(wait_time) is over
Wake(t) ==
  /\ pc[t] = "sleep"
  /\ remaining[t] = 0
  /\ pc' = [pc EXCEPT ![t] = "lock"]
  /\ UNCHANGED <<res, capacity, tokens, elapsed, lock, op, want, remaining, ret,
                 callsLeft, audit, bank, win, winCount>>

\* try_acquire that takes what is left when it fails
CheckFailDraining(t) ==
  /\ pc[t] = "check"
  /\ op[t] = "try_acquire"
  /\ ~Enough(t)
  /\ tokens' = 0
  /\ lock' = IF lock = t THEN "free" ELSE lock
  /\ ret' = "False"
  /\ pc' = [pc EXCEPT ![t] = "idle"]
  /\ op' = [op EXCEPT ![t] = "none"]
  /\ want' = [want EXCEPT ![t] = 0]
  /\ UNCHANGED <<res, capacity, elapsed, remaining, callsLeft,
                 audit, bank, win, winCount>>

\* try_acquire, not enough tokens: return False
CheckFail(t) ==
  /\ pc[t] = "check"
  /\ op[t] = "try_acquire"
  /\ ~Enough(t)
  /\ lock' = IF lock = t THEN "free" ELSE lock
  /\ ret' = "False"
  /\ pc' = [pc EXCEPT ![t] = "idle"]
  /\ op' = [op EXCEPT ![t] = "none"]
  /\ want' = [want EXCEPT ![t] = 0]
  /\ UNCHANGED <<res, capacity, tokens, elapsed, remaining, callsLeft,
                 audit, bank, win, winCount>>

\* one tick of time.time()
Tick ==
  /\ elapsed' = Min(elapsed + 1, OneSecond)
  /\ bank' = IF audit = "bank" THEN Min(bank + res, 2 * capacity) ELSE bank
  /\ remaining' = [t \in Threads |-> Max(0, remaining[t] - 1)]
  /\ IF win >= 0 /\ win + 1 < OneSecond
       THEN win' = win + 1 /\ winCount' = winCount
       ELSE win' = -1 /\ winCount' = 0
  /\ \/ elapsed' # elapsed
     \/ bank' # bank
     \/ remaining' # remaining
     \/ win' # win
  /\ UNCHANGED <<res, capacity, tokens, lock, pc, op, want, ret, callsLeft, audit>>

RLNext ==
  \/ \E t \in Threads, n \in 1..MaxN : StartCall(t, "acquire", n)
  \/ \E t \in Threads, n \in 1..MaxN : StartCall(t, "try_acquire", n)
  \/ \E t \in Threads : TakeLock(t)
  \/ \E t \in Threads : RefillTokens(t)
  \/ \E t \in Threads : CheckEnough(t)
  \/ \E t \in Threads : Deduct(t)
  \/ \E t \in Threads : CheckWait(t)
  \/ \E t \in Threads : Wake(t)
  \/ \E t \in Threads : CheckFail(t)
  \/ Tick

\* ---------------------------------------------------- JamaClientWrapper
\* TOKEN_REFRESH_THRESHOLD = timedelta(minutes=5)
TOKEN_REFRESH_THRESHOLD == 5
\* timedelta(hours=1), in minutes
TokenLifetime == 60

\* no wrapper is in use
ClientIdle ==
  /\ oauth = FALSE
  /\ token_attr = FALSE
  /\ has_expiry = FALSE
  /\ life = 0
  /\ recreated = 0
  /\ rq = [t \in Threads |-> "none"]
  /\ acq = [t \in Threads |-> 0]
  /\ checked = [t \in Threads |-> FALSE]
  /\ invoked = [t \in Threads |-> 0]
  /\ outcome = [t \in Threads |-> "none"]

\* _update_token_expiry: the expiry is tracked only with OAuth and the attribute
TracksExpiry == oauth /\ token_attr

\* JamaClientWrapper.__init__
ClientInit ==
  /\ oauth \in BOOLEAN
  /\ token_attr \in BOOLEAN
  /\ has_expiry = TracksExpiry
  /\ life = IF TracksExpiry THEN TokenLifetime ELSE 0
  /\ recreated = 0
  /\ rq = [t \in Threads |-> "none"]
  /\ acq = [t \in Threads |-> 0]
  /\ checked = [t \in Threads |-> FALSE]
  /\ invoked = [t \in Threads |-> 0]
  /\ outcome = [t \in Threads |-> "none"]

\* _make_request is entered and calls self.rate_limiter.acquire()
MakeRequest(t) ==
  /\ rq[t] = "none"
  /\ StartCall(t, "acquire", 1)
  /\ rq' = [rq EXCEPT ![t] = "acquire"]
  /\ UNCHANGED <<oauth, token_attr, has_expiry, life, recreated, acq, checked,
                 invoked, outcome>>

\* a step of the limiter inside rate_limiter.acquire()
LimiterStep(t) ==
  /\ rq[t] = "acquire"
  /\ \/ TakeLock(t) \/ RefillTokens(t) \/ CheckEnough(t) \/ CheckWait(t)
     \/ Wake(t)
  /\ UNCHANGED clvars

\* the step of rate_limiter.acquire() that takes the token and returns
LimiterGrant(t) ==
  /\ rq[t] = "acquire"
  /\ Deduct(t)
  /\ acq' = [acq EXCEPT ![t] = acq[t] + want[t]]
  /\ UNCHANGED <<oauth, token_attr, has_expiry, life, recreated, rq, checked,
                 invoked, outcome>>

\* not waiting for the limiter
AcquiredNoWait(t) == TRUE

\* rate_limiter.acquire() has returned
Acquired(t) == pc[t] = "idle"

\* refreshing only once the token has expired
NeedsRefreshLate == oauth /\ has_expiry /\ life < 0

\* time_remaining < self.TOKEN_REFRESH_THRESHOLD, when an expiry is tracked
NeedsRefresh == oauth /\ has_expiry /\ life < TOKEN_REFRESH_THRESHOLD

\* _ensure_valid_token returns without refreshing
EnsureValid(t) ==
  /\ rq[t] = "acquire"
  /\ Acquired(t)
  /\ ~NeedsRefresh
  /\ checked' = [checked EXCEPT ![t] = TRUE]
  /\ rq' = [rq EXCEPT ![t] = "invoke"]
  /\ UNCHANGED <<oauth, token_attr, has_expiry, life, recreated, acq, invoked,
                 outcome>>
  /\ UNCHANGED rlvars

\* _ensure_valid_token builds a new client and calls _update_token_expiry
EnsureRefresh(t) ==
  /\ rq[t] = "acquire"
  /\ Acquired(t)
  /\ NeedsRefresh
  /\ recreated' = recreated + 1
  /\ has_expiry' = TracksExpiry
  /\ life' = IF TracksExpiry THEN TokenLifetime ELSE 0
  /\ checked' = [checked EXCEPT ![t] = TRUE]
  /\ rq' = [rq EXCEPT ![t] = "invoke"]
  /\ UNCHANGED <<oauth, token_attr, acq, invoked, outcome>>
  /\ UNCHANGED rlvars

\* variant: a failed refresh forgets the expiry it tracked
EnsureRefreshFailsForgetting(t) ==
  /\ rq[t] = "acquire"
  /\ Acquired(t)
  /\ NeedsRefresh
  /\ has_expiry' = FALSE
  /\ life' = 0
  /\ outcome' = [outcome EXCEPT ![t] = "AuthenticationError"]
  /\ rq' = [rq EXCEPT ![t] = "done"]
  /\ UNCHANGED <<oauth, token_attr, recreated, acq, checked, invoked>>
  /\ UNCHANGED rlvars

\* building the new client raises: AuthenticationError leaves _make_request
EnsureRefreshFails(t) ==
  /\ rq[t] = "acquire"
  /\ Acquired(t)
  /\ NeedsRefresh
  /\ outcome' = [outcome EXCEPT ![t] = "AuthenticationError"]
  /\ rq' = [rq EXCEPT ![t] = "done"]
  /\ UNCHANGED <<oauth, token_attr, has_expiry, life, recreated, acq, checked,
                 invoked>>
  /\ UNCHANGED rlvars

\* what _make_request returns or raises for a result of the method
Surface(r) ==
  CASE r = "ok" -> "returned"
    [] r = "http_error" -> "JamaError"
    [] OTHER -> "reraised"

\* getattr(self._client, method_name) finds no such method
NoSuchMethod(t) ==
  /\ rq[t] = "invoke"
  /\ outcome' = [outcome EXCEPT ![t] = "AttributeError"]
  /\ rq' = [rq EXCEPT ![t] = "done"]
  /\ UNCHANGED <<oauth, token_attr, has_expiry, life, recreated, acq, checked,
                 invoked>>
  /\ UNCHANGED rlvars

\* method(*args, **kwargs) and the except clause
Invoke(t) ==
  /\ rq[t] = "invoke"
  /\ invoked' = [invoked EXCEPT ![t] = invoked[t] + 1]
  /\ \E r \in {"ok", "http_error", "other_error"} :
       outcome' = [outcome EXCEPT ![t] = Surface(r)]
  /\ rq' = [rq EXCEPT ![t] = "done"]
  /\ UNCHANGED <<oauth, token_attr, has_expiry, life, recreated, acq, checked>>
  /\ UNCHANGED rlvars

\* the caller has the result; the thread is free for the next request
Finish(t) ==
  /\ rq[t] = "done"
  /\ rq' = [rq EXCEPT ![t] = "none"]
  /\ acq' = [acq EXCEPT ![t] = 0]
  /\ checked' = [checked EXCEPT ![t] = FALSE]
  /\ invoked' = [invoked EXCEPT ![t] = 0]
  /\ outcome' = [outcome EXCEPT ![t] = "none"]
  /\ UNCHANGED <<oauth, token_attr, has_expiry, life, recreated>>
  /\ UNCHANGED rlvars

\* a tick of the limiter's clock, well below a minute
ClientTick == Tick /\ UNCHANGED clvars

\* datetime.now() moves on by a minute; nothing blocks between the token
\* check and the call, so no minute passes between them
MinutePasses ==
  /\ \A t \in Threads : rq[t] # "invoke"
  /\ life' = IF has_expiry THEN Max(life - 1, -1) ELSE life
  /\ elapsed' = OneSecond
  /\ remaining' = [t \in Threads |-> 0]
  /\ \/ life' # life
     \/ elapsed' # elapsed
     \/ remaining' # remaining
  /\ UNCHANGED <<res, capacity, tokens, lock, pc, op, want, ret, callsLeft,
                 audit, bank, win, winCount>>
  /\ UNCHANGED <<oauth, token_attr, has_expiry, recreated, rq, acq, checked,
                 invoked, outcome>>

ClientNext ==
  \/ \E t \in Threads : MakeRequest(t)
  \/ \E t \in Threads : LimiterStep(t)
  \/ \E t \in Threads : LimiterGrant(t)
  \/ \E t \in Threads : EnsureValid(t)
  \/ \E t \in Threads : EnsureRefresh(t)
  \/ \E t \in Threads : EnsureRefreshFails(t)
  \/ \E t \in Threads : NoSuchMethod(t)
  \/ \E t \in Threads : Invoke(t)
  \/ \E t \in Threads : Finish(t)
  \/ ClientTick
  \/ MinutePasses

\* ------------------------------------------------------------ write tools
\* if len(items) > 100
BatchLimit == 100

\* names an item is created with, and the parent ids it is created under:
\* parent 1 exists in JAMA, parent 2 does not, 0 stands for None
Names == {"a", "b"}
Parents == {0, 1, 2}
ExistingParents == {1}

\* batch lengths that are tried
BatchSizes == (0..MaxSmallBatch) \cup ((BatchLimit - 1)..(BatchLimit + 1))

\* what a call to the JAMA client does: return, raise requests Timeout or
\* ConnectionError, or raise something else
ClientResults == {"ok", "timeout", "error"}

NoArgs == [name |-> "none", parent |-> 0, cf |-> "none", entry |-> -1]
NoCall == [m |-> "none", entry |-> -1, flip |-> 0, r |-> "none"]
NoResult == [total |-> 0, succeeded |-> 0, failed |-> 0, nitems |-> 0,
             nerrors |-> 0, errindex |-> -1]

ToolsIdle ==
  /\ store = [n \in Names |-> 0]
  /\ toolsLeft = 0
  /\ tool = "none"
  /\ blen = 0
  /\ bidx = 0
  /\ bok = 0
  /\ bfail = -1
  /\ tpc = "end"
  /\ args = NoArgs
  /\ attempt = 0
  /\ stages = <<>>
  /\ posted = 0
  /\ lastCall = NoCall
  /\ raised = "none"
  /\ result = NoResult

ToolsInit ==
  /\ store = [n \in Names |-> 0]
  /\ toolsLeft = MaxToolCalls
  /\ tool = "none"
  /\ blen = 0
  /\ bidx = 0
  /\ bok = 0
  /\ bfail = -1
  /\ tpc = "end"
  /\ args = NoArgs
  /\ attempt = 0
  /\ stages = <<>>
  /\ posted = 0
  /\ lastCall = NoCall
  /\ raised = "none"
  /\ result = NoResult

InBatch == tool \in {"batch_create", "batch_update"}

\* a call of method m on the JAMA client, made for the running entry, and
\* how the call ended
Called(m, r) ==
  lastCall' = [m |-> m, entry |-> args.entry, flip |-> 1 - lastCall.flip,
               r |-> r]

\* a tool is called: what the previous call left behind is dropped
Fresh ==
  /\ tpc = "end"
  /\ toolsLeft > 0
  /\ toolsLeft' = toolsLeft - 1
  /\ lastCall' = NoCall
  /\ result' = NoResult
  /\ bidx' = 0
  /\ bok' = 0
  /\ bfail' = -1
  /\ attempt' = 0
  /\ stages' = <<>>
  /\ posted' = 0

\* variant: the batch loop has no try / except around the entry
ItemRaisesThrough(e) ==
  /\ bfail' = bfail
  /\ tpc' = "end"
  /\ raised' = e

\* the running jama_create_item / jama_update_item raises e: a direct call
\* ends with e, a batch records the failure and breaks out of the loop
ItemRaises(e) ==
  IF InBatch
    THEN /\ bfail' = bidx
         /\ tpc' = "loop"
         /\ raised' = raised
    ELSE /\ bfail' = bfail
         /\ tpc' = "end"
         /\ raised' = e

\* the running jama_create_item / jama_update_item returns the item: a
\* direct call ends, a batch appends it and goes to the next entry
ItemReturns ==
  IF InBatch
    THEN /\ bok' = bok + 1
         /\ bidx' = bidx + 1
         /\ tpc' = "loop"
    ELSE /\ bok' = bok
         /\ bidx' = bidx
         /\ tpc' = "end"

\* ---- jama_create_item
\* jama_create_item(ctx, project, item_type, name, parent, description, cf)
CallCreate(n, p, c) ==
  /\ Fresh
  /\ tool' = "create"
  /\ blen' = 0
  /\ args' = [name |-> n, parent |-> p, cf |-> c, entry |-> 0]
  /\ tpc' = "validate"
  /\ raised' = "none"
  /\ UNCHANGED store

\* validate_parent_exists with parent None: int(parent_id) raises, no call
ValidateNone ==
  /\ tpc = "validate"
  /\ args.parent = 0
  /\ ItemRaises("ValueError")
  /\ UNCHANGED <<store, toolsLeft, tool, blen, bidx, bok, args, attempt,
                 stages, posted, lastCall, result>>

\* variant: the parent lookup is not made to matter
ParentFoundAlways(p, r) == TRUE

\* the parent lookup yields an item
ParentFound(p, r) == p \in ExistingParents /\ r = "ok"

\* validate_parent_exists: jama_get_item(parent)
ValidateParent(r) ==
  /\ tpc = "validate"
  /\ args.parent # 0
  /\ Called("get_item", r)
  /\ IF ParentFound(args.parent, r)
       THEN /\ stages' = Append(stages, "parent")
            /\ tpc' = "dupcheck"
            /\ UNCHANGED <<bfail, raised>>
       ELSE /\ ItemRaises("ValueError")
            /\ UNCHANGED stages
  /\ UNCHANGED <<store, toolsLeft, tool, blen, bidx, bok, args, attempt,
                 posted, result>>

\* item_name in existing_names, False when the children cannot be fetched
IsDuplicate(n, r) == r = "ok" /\ store[n] > 0

\* check_duplicate_name: get_item_children(parent)
CheckDuplicate(r) ==
  /\ tpc = "dupcheck"
  /\ Called("get_item_children", r)
  /\ IF IsDuplicate(args.name, r)
       THEN /\ ItemRaises("ValueError")
            /\ UNCHANGED stages
       ELSE /\ stages' = Append(stages, "duplicate")
            /\ tpc' = "parse"
            /\ UNCHANGED <<bfail, raised>>
  /\ UNCHANGED <<store, toolsLeft, tool, blen, bidx, bok, args, attempt,
                 posted, result>>

\* json.loads(custom_fields) and the merge of name and description
ParseCustomFields ==
  /\ tpc = "parse"
  /\ CASE args.cf = "invalid" ->
            /\ ItemRaises("ValueError")
            /\ UNCHANGED <<stages, attempt>>
       [] args.cf = "nonobject" ->
            /\ ItemRaises("TypeError")
            /\ stages' = Append(stages, "json")
            /\ UNCHANGED attempt
       [] OTHER ->
            /\ stages' = Append(stages, "json")
            /\ attempt' = 1
            /\ tpc' = "post"
            /\ UNCHANGED <<bfail, raised>>
  /\ UNCHANGED <<store, toolsLeft, tool, blen, bidx, bok, args, posted,
                 lastCall, result>>

\* stop_after_attempt(2)
CreateAttempts == 2

\* variant: no retry, the first Timeout ends the call
CreateTimedOutOnce ==
  /\ ItemRaises("RetryError")
  /\ UNCHANGED attempt

\* an attempt of create_with_retry raised Timeout or ConnectionError
CreateTimedOut ==
  IF attempt < CreateAttempts
    THEN /\ attempt' = attempt + 1
         /\ tpc' = "post"
         /\ UNCHANGED <<bfail, raised>>
    ELSE /\ ItemRaises("RetryError")
         /\ UNCHANGED attempt

\* create_with_retry: jama_client.post_item(...)
PostItem(r) ==
  /\ tpc = "post"
  /\ Called("post_item", r)
  /\ CASE r = "ok" ->
            /\ store' = [store EXCEPT ![args.name] = Min(store[args.name] + 1, 2)]
            /\ posted' = posted + 1
            /\ tpc' = "fetch"
            /\ UNCHANGED <<bfail, raised, attempt>>
       [] r = "timeout" ->
            /\ CreateTimedOut
            /\ UNCHANGED <<store, posted>>
       [] OTHER ->
            /\ ItemRaises("Exception")
            /\ UNCHANGED <<store, posted, attempt>>
  /\ UNCHANGED <<toolsLeft, tool, blen, bidx, bok, args, stages, result>>

\* create_with_retry: jama_client.get_item(item_id), and the return
FetchCreated(r) ==
  /\ tpc = "fetch"
  /\ Called("get_item", r)
  /\ CASE r = "ok" ->
            /\ ItemReturns
            /\ UNCHANGED <<bfail, raised, attempt>>
       [] r = "timeout" ->
            /\ CreateTimedOut
            /\ UNCHANGED <<bok, bidx>>
       [] OTHER ->
            /\ ItemRaises("Exception")
            /\ UNCHANGED <<bok, bidx, attempt>>
  /\ UNCHANGED <<store, toolsLeft, tool, blen, args, stages, posted, result>>

\* ---- jama_update_item
\* what patch_item does: return, or raise an error that mentions 409 /
\* Conflict, one that mentions 500 / 503, a Timeout or ConnectionError, or
\* something else
PatchResults == {"ok", "conflict", "server", "timeout", "error"}

\* jama_update_item(ctx, item_id, fields, **additional_fields)
CallUpdate(f) ==
  /\ Fresh
  /\ tool' = "update"
  /\ blen' = 0
  /\ args' = [name |-> "none", parent |-> 0, cf |-> f, entry |-> 0]
  /\ tpc' = "ucheck"
  /\ raised' = "none"
  /\ UNCHANGED store

\* if not fields: raise ValidationError
UpdateCheckFields ==
  /\ tpc = "ucheck"
  /\ IF args.cf = "empty"
       THEN /\ ItemRaises("ValidationError")
            /\ UNCHANGED stages
       ELSE /\ tpc' = "uget"
            /\ stages' = Append(stages, "fields")
            /\ UNCHANGED <<bfail, raised>>
  /\ UNCHANGED <<store, toolsLeft, tool, blen, bidx, bok, args, attempt,
                 posted, lastCall, result>>

\* variant: the lock of the fetched item is not looked at
LockedItemNever(r, locked) == FALSE

\* existing_item["lock"]["locked"] of the item the pre-update get_item
\* returned
LockedItem(r, locked) == r = "ok" /\ locked

\* the pre-update get_item and the lock check
UpdateGet(r, locked) ==
  /\ tpc = "uget"
  /\ Called("get_item", IF r = "ok" /\ locked THEN "ok_locked" ELSE r)
  /\ CASE r # "ok" ->
            /\ ItemRaises("NotFoundError")
            /\ UNCHANGED <<attempt, stages>>
       [] LockedItem(r, locked) ->
            /\ ItemRaises("ValidationError")
            /\ UNCHANGED <<attempt, stages>>
       [] OTHER ->
            /\ attempt' = 1
            /\ tpc' = "patch"
            /\ stages' = stages \o <<"exists", "unlocked">>
            /\ UNCHANGED <<bfail, raised>>
  /\ UNCHANGED <<store, toolsLeft, tool, blen, bidx, bok, args, posted, result>>

\* stop_after_attempt(3)
UpdateAttempts == 3

\* variant: every failure that is not a conflict is retried
TransientAny(r) == r \notin {"ok", "conflict"}

\* retry_if_exception_type((ServerError, Timeout, ConnectionError)), where
\* ServerError is what a message with 500 or 503 was wrapped as
Transient(r) == r \in {"server", "timeout"}

\* _update_with_retry: jama_client.patch_item(item_id, patches)
PatchItem(r) ==
  /\ tpc = "patch"
  /\ Called("patch_item", r)
  /\ stages' = Append(stages, "patch")
  /\ CASE r = "ok" ->
            /\ tpc' = "ufetch"
            /\ UNCHANGED <<bfail, raised, attempt>>
       [] r = "conflict" ->
            /\ ItemRaises("ConflictError")
            /\ UNCHANGED attempt
       [] Transient(r) ->
            IF attempt < UpdateAttempts
              THEN /\ attempt' = attempt + 1
                   /\ tpc' = "patch"
                   /\ UNCHANGED <<bfail, raised>>
              ELSE /\ ItemRaises(IF r = "server" THEN "ServerError" ELSE "Timeout")
                   /\ UNCHANGED attempt
       [] OTHER ->
            /\ ItemRaises("Exception")
            /\ UNCHANGED attempt
  /\ UNCHANGED <<store, toolsLeft, tool, blen, bidx, bok, args, posted, result>>

\* the version check logs its warning: both versions are there and the new
\* one is not greater than the old one
VersionWarning(old, new) == old # 0 /\ new # 0 /\ new <= old

\* variant: a version that did not increase is raised as a conflict
UpdateReturnsUnlessWarned(warned) ==
  IF warned
    THEN ItemRaises("ConflictError") /\ UNCHANGED <<bok, bidx>>
    ELSE ItemReturns /\ UNCHANGED <<bfail, raised>>

\* return updated_item, whether or not the warning was logged
UpdateReturns(warned) == ItemReturns /\ UNCHANGED <<bfail, raised>>

\* the post-update get_item, the version check and the return of the
\* fetched item; old is the currentVersion read before the update
UpdateFetch(r, old, new) ==
  /\ tpc = "ufetch"
  /\ Called("get_item", IF r = "ok" /\ VersionWarning(old, new)
                          THEN "ok_warned" ELSE r)
  /\ IF r = "ok"
       THEN UpdateReturns(VersionWarning(old, new))
       ELSE ItemRaises("Exception") /\ UNCHANGED <<bok, bidx>>
  /\ UNCHANGED <<store, toolsLeft, tool, blen, args, attempt, stages, posted,
                 result>>

\* ---- jama_batch_create_items / jama_batch_update_items
\* variant: len(items) >= 100 is rejected
SizeOKStrict(n) == n < BatchLimit

\* not (len(items) > 100)
SizeOK(n) == n <= BatchLimit

\* the tool is called with n entries
CallBatch(kind, n) ==
  /\ Fresh
  /\ tool' = kind
  /\ blen' = n
  /\ args' = NoArgs
  /\ IF SizeOK(n)
       THEN tpc' = "loop" /\ raised' = "none"
       ELSE tpc' = "end" /\ raised' = "ValueError"
  /\ UNCHANGED store

\* variant: the except branch does not break
LoopGoesOnAfterFailure == bidx < blen

\* the for loop has a next entry to process
LoopGoesOn == bfail = -1 /\ bidx < blen

\* an entry of batch create that lacks project, itemType, fields or a name:
\* KeyError or ValueError inside the try
BatchCreateBadEntry ==
  /\ tool = "batch_create"
  /\ tpc = "loop"
  /\ LoopGoesOn
  /\ bfail' = bidx
  /\ UNCHANGED <<store, toolsLeft, tool, blen, bidx, bok, tpc, args, attempt,
                 stages, posted, lastCall, raised, result>>

\* an entry of batch create with all its parts: await jama_create_item(...)
BatchCreateEntry(n, p) ==
  /\ tool = "batch_create"
  /\ tpc = "loop"
  /\ LoopGoesOn
  /\ args' = [name |-> n, parent |-> p, cf |-> "wrapped", entry |-> bidx]
  /\ attempt' = 0
  /\ stages' = <<>>
  /\ posted' = 0
  /\ tpc' = "validate"
  /\ UNCHANGED <<store, toolsLeft, tool, blen, bidx, bok, bfail, lastCall,
                 raised, result>>

\* an entry of batch update without item_id or without fields: ValueError
BatchUpdateBadEntry ==
  /\ tool = "batch_update"
  /\ tpc = "loop"
  /\ LoopGoesOn
  /\ bfail' = bidx
  /\ UNCHANGED <<store, toolsLeft, tool, blen, bidx, bok, tpc, args, attempt,
                 stages, posted, lastCall, raised, result>>

\* an entry of batch update with both: await jama_update_item(...)
BatchUpdateEntry ==
  /\ tool = "batch_update"
  /\ tpc = "loop"
  /\ LoopGoesOn
  /\ args' = [name |-> "none", parent |-> 0, cf |-> "fields", entry |-> bidx]
  /\ attempt' = 0
  /\ stages' = <<>>
  /\ posted' = 0
  /\ tpc' = "ucheck"
  /\ UNCHANGED <<store, toolsLeft, tool, blen, bidx, bok, bfail, lastCall,
                 raised, result>>

\* the response structure built after the loop
BuildResult ==
  [total |-> blen,
   succeeded |-> bok,
   failed |-> IF bfail # -1 THEN 1 ELSE 0,
   nitems |-> bok,
   nerrors |-> IF bfail # -1 THEN 1 ELSE 0,
   errindex |-> bfail]

\* the loop is over: return result
BatchReturn ==
  /\ InBatch
  /\ tpc = "loop"
  /\ ~LoopGoesOn
  /\ result' = BuildResult
  /\ tpc' = "end"
  /\ UNCHANGED <<store, toolsLeft, tool, blen, bidx, bok, bfail, args, attempt,
                 stages, posted, lastCall, raised>>

ToolsNext ==
  \/ \E n \in Names, p \in Parents,
        c \in {"object", "wrapped", "nonobject", "invalid"} : CallCreate(n, p, c)
  \/ ValidateNone
  \/ \E r \in ClientResults : ValidateParent(r)
  \/ \E r \in ClientResults : CheckDuplicate(r)
  \/ ParseCustomFields
  \/ \E r \in ClientResults : PostItem(r)
  \/ \E r \in ClientResults : FetchCreated(r)
  \/ \E f \in {"fields", "empty"} : CallUpdate(f)
  \/ UpdateCheckFields
  \/ \E r \in ClientResults, locked \in BOOLEAN : UpdateGet(r, locked)
  \/ \E r \in PatchResults : PatchItem(r)
  \/ \E r \in ClientResults, old \in 0..2, new \in 0..2 :
       UpdateFetch(r, old, new)
  \/ \E n \in BatchSizes : CallBatch("batch_create", n)
  \/ \E n \in BatchSizes : CallBatch("batch_update", n)
  \/ BatchCreateBadEntry
  \/ \E n \in Names, p \in Parents : BatchCreateEntry(n, p)
  \/ BatchUpdateBadEntry
  \/ BatchUpdateEntry
  \/ BatchReturn


\* ------------------------------------------------------------ functions
\* the functions of the write path that compute a value from their
\* arguments, each run once on arguments drawn at the start
FunctionsIdle ==
  /\ fn = "none"
  /\ inp = <<>>
  /\ out = <<>>
  /\ done = TRUE

\* fn is run on inp and has not returned yet
Pending(f) == fn = f /\ ~done

\* the function returns (or raises) o
Returns(o) ==
  /\ out' = o
  /\ done' = TRUE
  /\ UNCHANGED <<fn, inp>>

\* ---- jama_create_item: the request it builds
\* the dictionaries over the names of item fields
Dicts == UNION {[D -> {"x"}] : D \in SUBSET {"name", "description", "status"}}

\* the arguments; custom_fields is given parsed: its top-level entries other
\* than "fields" (top), whether it has a "fields" entry, and that entry
CreateArgs(b, t, i) ==
  { [project |-> 1, item_type |-> 2, name |-> "a", parent |-> 3,
     description |-> d, has_fields |-> b, top |-> t, inner |-> i,
     new_id |-> id] : d \in {"", "d"}, id \in {100, 101} }

CreateInputs ==
  UNION ( {CreateArgs(FALSE, t, <<>>) : t \in Dicts}
          \cup {CreateArgs(TRUE, t, i) : t \in Dicts, i \in Dicts} )

\* variant: the custom fields are always taken from the top level
CustomFieldsOfTop(a) == a.top

\* custom_fields_dict["fields"] if "fields" in custom_fields_dict, else
\* custom_fields_dict
CustomFieldsOf(a) == IF a.has_fields THEN a.inner ELSE a.top

\* fields_data after name and description were merged in
FieldsData(a) ==
  LET src == CustomFieldsOf(a)
      described == a.description # ""
      keys == (DOMAIN src \cup {"name"})
                \cup (IF described THEN {"description"} ELSE {})
  IN  [k \in keys |->
         CASE k = "name" -> a.name
           [] k = "description" /\ described -> a.description
           [] OTHER -> src[k]]

\* the keyword arguments of jama_client.post_item(...)
PostItemCall(a) ==
  [project |-> a.project,
   item_type_id |-> a.item_type,
   child_item_type_id |-> "None",
   location |-> [item |-> a.parent],
   fields |-> FieldsData(a)]

\* create_with_retry: the post_item call, the get_item call made with the
\* id that post_item returned (a.new_id), and the id of the returned item
CreateItem(a) ==
  [post_item |-> PostItemCall(a), get_item |-> a.new_id, returned |-> a.new_id]

ApplyCreateItem ==
  /\ Pending("jama_create_item")
  /\ Returns(CreateItem(inp))

\* ---- fields_to_json_patch and the patch_item calls of jama_update_item
\* the fields of an update, in the order a dictionary yields them
UpdateKeys == <<"name", "status">>
Range(q) == {q[k] : k \in 1..Len(q)}

\* the fields maps; a value is the same text as a str or as an int
FieldMaps ==
  UNION {[D -> {[type |-> "str", v |-> "7"], [type |-> "int", v |-> "7"]}] :
           D \in SUBSET Range(UpdateKeys)}

\* list(fields.keys())
Keys(f) == SelectSeq(UpdateKeys, LAMBDA k : k \in DOMAIN f)

\* variant: the value is sent as text
PatchOpAsText(name, value) ==
  [op |-> "add", path |-> "/fields/" \o name,
   value |-> [type |-> "str", v |-> value.v]]

\* {"op": "add", "path": f"/fields/{field_name}", "value": field_value}
PatchOp(name, value) ==
  [op |-> "add", path |-> "/fields/" \o name, value |-> value]

\* fields_to_json_patch(fields)
fields_to_json_patch(f) ==
  IF DOMAIN f = {}
    THEN [raised |-> "ValueError", value |-> <<>>]
    ELSE [raised |-> "none",
          value |-> [k \in 1..Len(Keys(f)) |-> PatchOp(Keys(f)[k], f[Keys(f)[k]])]]

ApplyFieldsToJsonPatch ==
  /\ Pending("fields_to_json_patch")
  /\ Returns(fields_to_json_patch(inp))

\* all_fields: fields, updated with additional_fields
AllFields(f, more) ==
  [k \in DOMAIN f \cup DOMAIN more |-> IF k \in DOMAIN more THEN more[k] ELSE f[k]]

\* the arguments of jama_update_item (fields = None is the empty map), with
\* the way each attempt's patch_item call would end; the pre-update
\* get_item returns an item that is not locked
UpdateInputs ==
  { [item_id |-> 7, fields |-> f, additional |-> more, ends |-> e] :
      f \in FieldMaps, more \in FieldMaps,
      e \in [1..UpdateAttempts -> PatchResults] }

\* the attempt that ends _update_with_retry: the first that neither raises
\* ServerError nor Timeout, else the last
LastAttempt(e) ==
  IF \E k \in 1..UpdateAttempts : e[k] \notin {"server", "timeout"}
    THEN CHOOSE k \in 1..UpdateAttempts :
           /\ e[k] \notin {"server", "timeout"}
           /\ \A j \in 1..(k - 1) : e[j] \in {"server", "timeout"}
    ELSE UpdateAttempts

\* what _update_with_retry raises at its end
PatchRaises(r) ==
  CASE r = "ok" -> "none"
    [] r = "conflict" -> "ConflictError"
    [] r = "server" -> "ServerError"
    [] r = "timeout" -> "Timeout"
    [] OTHER -> "Exception"

\* jama_update_item: what it raises and its patch_item calls
UpdateItem(a) ==
  LET all == AllFields(a.fields, a.additional)
      patches == fields_to_json_patch(all)
      n == LastAttempt(a.ends)
  IN  IF DOMAIN all = {}
        THEN [raised |-> "ValidationError", patch_item |-> <<>>]
        ELSE [raised |-> PatchRaises(a.ends[n]),
              patch_item |-> [k \in 1..n |->
                               [item_id |-> a.item_id, patches |-> patches.value]]]

ApplyUpdateItem ==
  /\ Pending("jama_update_item")
  /\ Returns(UpdateItem(inp))

\* ---- handle_http_error
\* the status codes and response texts it is given
HttpErrorInputs ==
  {[status_code |-> c, response_text |-> t] :
     c \in 99..601, t \in {"", "Item 28 is gone"}}

\* error_map
ErrorMap ==
  (400 :> "ValidationError") @@ (401 :> "AuthenticationError")
    @@ (403 :> "PermissionError") @@ (404 :> "NotFoundError")
    @@ (409 :> "ConflictError") @@ (429 :> "RateLimitError")

\* variant: only the server errors that are named in the ServerError docstring
IsServerErrorNamed(c) == c \in {500, 502, 503, 504}

\* 500 <= status_code < 600
IsServerError(c) == 500 <= c /\ c < 600

\* JamaError(message, details) and its subclasses: the class, .message and
\* .details of the instance
JamaError(class, message, details) ==
  [class |-> class, message |-> message, details |-> details]

\* handle_http_error(status_code, response_text)
handle_http_error(status_code, response_text) ==
  LET details == [status_code |-> status_code, response |-> response_text]
      code == ToString(status_code)
  IN  CASE status_code \in DOMAIN ErrorMap ->
             JamaError(ErrorMap[status_code],
                       "HTTP " \o code \o ": " \o response_text, details)
        [] status_code \notin DOMAIN ErrorMap /\ IsServerError(status_code) ->
             JamaError("ServerError",
                       "HTTP " \o code \o ": Server error - " \o response_text,
                       details)
        [] OTHER ->
             JamaError("JamaError",
                       "HTTP " \o code \o ": Unexpected error - " \o response_text,
                       details)

ApplyHandleHttpError ==
  /\ Pending("handle_http_error")
  /\ Returns(handle_http_error(inp.status_code, inp.response_text))

\* ---- _make_request: the except clause
\* sub in s, for two strings
Contains(str, sub) ==
  \E i \in 1..(Len(str) - Len(sub) + 1) : SubSeq(str, i, i + Len(sub) - 1) = sub

\* the reason phrase of a status code
Reason(c) ==
  CASE c = 400 -> "Bad Request"
    [] c = 401 -> "Unauthorized"
    [] c = 403 -> "Forbidden"
    [] c = 404 -> "Not Found"
    [] c = 409 -> "Conflict"
    [] c = 429 -> "Too Many Requests"
    [] c = 500 -> "Internal Server Error"
    [] c = 501 -> "Not Implemented"
    [] c = 502 -> "Bad Gateway"
    [] c = 503 -> "Service Unavailable"
    [] c = 504 -> "Gateway Timeout"
    [] OTHER -> "Error"

\* the exceptions of the underlying client: with an HTTP status, str(e)
\* holding the code and the reason phrase, the code alone, or the reason
\* phrase alone; without one (status 0), the text of a network failure
MethodFailures ==
  UNION { { [class |-> "APIException", status |-> c,
             message |-> ToString(c) \o " " \o Reason(c)],
            [class |-> "APIException", status |-> c,
             message |-> "Status: " \o ToString(c)],
            [class |-> "APIException", status |-> c,
             message |-> Reason(c)] } :
          c \in {400, 401, 403, 404, 409, 429, 500, 501, 502, 503, 504, 599} }
    \cup { [class |-> "ConnectionError", status |-> 0, message |-> m] :
             m \in {"Connection aborted", "Read timed out"} }

\* the codes of the last elif, in the order the for loop tries them
ServerCodes == <<500, 502, 503, 504>>

\* the first code of the for loop that str(e) holds
FirstServerCode(m) ==
  ServerCodes[CHOOSE k \in 1..Len(ServerCodes) :
                /\ Contains(m, ToString(ServerCodes[k]))
                /\ \A j \in 1..(k - 1) : ~Contains(m, ToString(ServerCodes[j]))]

\* what the except clause of _make_request raises for exception e
RaisedByMakeRequest(e) ==
  LET m == e.message
  IN  IF Contains(m, "401") \/ Contains(m, "Unauthorized")
        THEN handle_http_error(401, m)
      ELSE IF Contains(m, "403") \/ Contains(m, "Forbidden")
        THEN handle_http_error(403, m)
      ELSE IF Contains(m, "404") \/ Contains(m, "Not Found")
        THEN handle_http_error(404, m)
      ELSE IF Contains(m, "409") \/ Contains(m, "Conflict")
        THEN handle_http_error(409, m)
      ELSE IF Contains(m, "429") \/ Contains(m, "Too Many Requests")
        THEN handle_http_error(429, m)
      ELSE IF \E k \in 1..Len(ServerCodes) : Contains(m, ToString(ServerCodes[k]))
        THEN handle_http_error(FirstServerCode(m), m)
      ELSE JamaError(e.class, e.message, [status_code |-> e.status, response |-> ""])

ApplyMakeRequestExcept ==
  /\ Pending("_make_request")
  /\ Returns(RaisedByMakeRequest(inp))

\* ---- validate_parent_exists
UpperCase == "ABCDEFGHIJKLMNOPQRSTUVWXYZ"
LowerCase == "abcdefghijklmnopqrstuvwxyz"

\* str.lower() of one character
LowerChar(c) ==
  IF \E k \in 1..Len(UpperCase) : SubSeq(UpperCase, k, k) = c
    THEN LET k == CHOOSE k \in 1..Len(UpperCase) : SubSeq(UpperCase, k, k) = c
         IN  SubSeq(LowerCase, k, k)
    ELSE c

\* str.lower()
RECURSIVE Lower(_)
Lower(str) ==
  IF str = "" THEN ""
  ELSE LowerChar(SubSeq(str, 1, 1)) \o Lower(SubSeq(str, 2, Len(str)))

\* what the lookup jama_get_item(ctx, item_id=int(parent_id)) does: it
\* returns an item, returns nothing, or raises (int() included); nf and
\* perm say whether the error text mentions 404 / not found and 403 /
\* permission
ParentInputs ==
  LET Lookups == { [kind |-> "item", message |-> "", nf |-> FALSE, perm |-> FALSE],
    [kind |-> "empty", message |-> "", nf |-> FALSE, perm |-> FALSE],
    [kind |-> "error", message |-> "HTTP 404: gone", nf |-> TRUE, perm |-> FALSE],
    [kind |-> "error", message |-> "Resource Not Found", nf |-> TRUE, perm |-> FALSE],
    [kind |-> "error", message |-> "HTTP 403: no", nf |-> FALSE, perm |-> TRUE],
    [kind |-> "error", message |-> "Permission denied", nf |-> FALSE, perm |-> TRUE],
    [kind |-> "error", message |-> "403 Forbidden for /items/4040", nf |-> TRUE, perm |-> TRUE],
    [kind |-> "error", message |-> "Read timed out", nf |-> FALSE, perm |-> FALSE],
    [kind |-> "error", message |-> "HTTP 500: Server error", nf |-> FALSE, perm |-> FALSE],
    [kind |-> "error", message |-> "int() argument must be a number, not 'NoneType'",
     nf |-> FALSE, perm |-> FALSE] }
  IN  {[parent_id |-> id, lookup |-> l] : id \in {"28", "None"}, l \in Lookups}

\* variant: the test for 403 / permission comes first
ParentErrorPermissionFirst(id, msg) ==
  LET error_str == Lower(msg)
  IN  IF Contains(msg, "403") \/ Contains(error_str, "permission")
        THEN [raised |-> "ValueError",
              message |-> "Permission denied for parent item " \o id]
      ELSE IF Contains(msg, "404") \/ Contains(error_str, "not found")
        THEN [raised |-> "ValueError",
              message |-> "Parent item " \o id \o " not found"]
      ELSE [raised |-> "ValueError",
            message |-> "Unable to validate parent item " \o id \o ": " \o msg]

\* the except clause: the ValueError raised for error text msg
ParentError(id, msg) ==
  LET error_str == Lower(msg)
  IN  IF Contains(msg, "404") \/ Contains(error_str, "not found")
        THEN [raised |-> "ValueError",
              message |-> "Parent item " \o id \o " not found"]
      ELSE IF Contains(msg, "403") \/ Contains(error_str, "permission")
        THEN [raised |-> "ValueError",
              message |-> "Permission denied for parent item " \o id]
      ELSE [raised |-> "ValueError",
            message |-> "Unable to validate parent item " \o id \o ": " \o msg]

\* validate_parent_exists(ctx, parent_id); the ValueError raised inside the
\* try for an empty item is caught by the except clause like any other
validate_parent_exists(a) ==
  CASE a.lookup.kind = "item" -> [raised |-> "none", message |-> ""]
    [] a.lookup.kind = "empty" ->
         ParentError(a.parent_id, "Parent item " \o a.parent_id \o " not found")
    [] OTHER -> ParentError(a.parent_id, a.lookup.message)

ApplyValidateParentExists ==
  /\ Pending("validate_parent_exists")
  /\ Returns(validate_parent_exists(inp))

\* ---- validate_json_patch
\* what an entry of an operation may hold: "absent" when the key is not
\* there, else a value; a path is a str or, here, an int
\* the elements of the list: dictionaries, and one thing that is none
PatchElements ==
  { [is_dict |-> TRUE, op |-> o, path |-> q, has_value |-> b] :
      o \in {"absent", "add", "remove", "bogus"},
      q \in { [type |-> "absent", v |-> ""], [type |-> "str", v |-> "/fields/name"],
              [type |-> "str", v |-> "fields/name"], [type |-> "int", v |-> "5"] },
      b \in BOOLEAN }
    \cup { [is_dict |-> FALSE, op |-> "absent",
            path |-> [type |-> "absent", v |-> ""], has_value |-> FALSE] }

\* the arguments: something that is not a list, or a list of elements
PatchInputs ==
  { [is_list |-> FALSE, items |-> <<>>] }
    \cup { [is_list |-> TRUE, items |-> q] :
             q \in UNION {[1..n -> PatchElements] : n \in 0..MaxPatches} }

\* variant: "add" is not among the operations
RequiredOpsWithoutAdd == {"replace", "remove", "copy", "move", "test"}

\* required_ops
RequiredOps == {"replace", "add", "remove", "copy", "move", "test"}

\* str.startswith
StartsWith(str, prefix) ==
  Len(str) >= Len(prefix) /\ SubSeq(str, 1, Len(prefix)) = prefix

\* the body of the for loop: the exception element e raises, "none" if none
ElementRaises(e) ==
  IF ~e.is_dict THEN "ValueError"
  ELSE IF e.op = "absent" THEN "ValueError"
  ELSE IF e.op \notin RequiredOps THEN "ValueError"
  ELSE IF e.path.type = "absent" THEN "ValueError"
  ELSE IF e.path.type # "str" THEN "AttributeError"
  ELSE IF ~StartsWith(e.path.v, "/") THEN "ValueError"
  ELSE IF e.op # "remove" /\ ~e.has_value THEN "ValueError"
  ELSE "none"

\* validate_json_patch(patches): what it raises and for which element
\* (index from 0, -1 when the list as a whole is refused)
validate_json_patch(a) ==
  LET n == Len(a.items)
      bad == {k \in 1..n : ElementRaises(a.items[k]) # "none"}
  IN  IF ~a.is_list \/ n = 0
        THEN [raised |-> "ValueError", index |-> -1, returned |-> FALSE]
      ELSE IF bad = {}
        THEN [raised |-> "none", index |-> -1, returned |-> TRUE]
      ELSE LET first == CHOOSE k \in bad : \A j \in bad : k <= j
           IN  [raised |-> ElementRaises(a.items[first]), index |-> first - 1,
                returned |-> FALSE]

ApplyValidateJsonPatch ==
  /\ Pending("validate_json_patch")
  /\ Returns(validate_json_patch(inp))

\* ---- server.py: the jama_create_item tool
\* the arguments of a tool call, ids written as text; description "" is the
\* default (None), and no custom fields are given
ToolInputs ==
  { [project |-> "1", item_type |-> "2", name |-> n, parent |-> q,
     description |-> d] : n \in {"a", "28"}, q \in {"3", "None"}, d \in {"", "d"} }

\* the parameters of write_tools.jama_create_item after ctx, in order
CreateParams == <<"project", "item_type", "name", "parent", "description">>

\* the values the tool passes after ctx, in order

\* the binding of the positional arguments to the parameters
Received(a) ==
  LET Forwarded == <<a.project, a.item_type, a.parent, a.name, a.description>>
  IN  [k \in Range(CreateParams) |->
         Forwarded[CHOOSE i \in 1..Len(CreateParams) : CreateParams[i] = k]]

\* the arguments as CreateItem takes them, custom_fields being "{}"
WithNoCustomFields(a) ==
  [project |-> a.project, item_type |-> a.item_type, name |-> a.name,
   parent |-> a.parent, description |-> a.description,
   has_fields |-> FALSE, top |-> <<>>, inner |-> <<>>, new_id |-> 100]

\* the tool: write_tools.jama_create_item as called by it, and the post_item
\* request that call builds
ToolCreateItem(a) ==
  [received |-> Received(a),
   post_item |-> PostItemCall(WithNoCustomFields(Received(a)))]

ApplyToolCreateItem ==
  /\ Pending("server.jama_create_item")
  /\ Returns(ToolCreateItem(inp))

\* ---- jama_search_items
\* the hard cap on the page size
PageCap == 50

\* what get_abstract_items returns: a dictionary with the items under
\* "data", or the list of items itself; the items are numbered from 1
SearchInputs ==
  { [shape |-> sh, data |-> [k \in 1..n |-> k], start_at |-> st,
     max_results |-> mr] :
      sh \in {"dict", "list"}, n \in {0, 3, PageCap + 5},
      st \in {0, 2, PageCap + 2}, mr \in {-1, 0, 2, 20, PageCap, PageCap + 1} }

\* jama_search_items(ctx, query, project_id, item_type_id, start_at,
\* max_results): the page with its pageInfo, or the results as they came
jama_search_items(a) ==
  IF a.shape = "dict"
    THEN LET \* data[lo:hi] as Python cuts it, for whatever integers
             n == Len(a.data)
             lo == a.start_at
             hi == a.start_at + Min(a.max_results, PageCap)
             from == IF lo < 0 THEN Max(n + lo, 0) ELSE Min(lo, n)
             to == IF hi < 0 THEN Max(n + hi, 0) ELSE Min(hi, n)
             page == SubSeq(a.data, from + 1, to)
         IN  [paged |-> TRUE, data |-> page, startIndex |-> a.start_at,
              resultCount |-> Len(page), totalResults |-> Len(a.data)]
    ELSE [paged |-> FALSE, data |-> a.data, startIndex |-> -1,
          resultCount |-> -1, totalResults |-> -1]

ApplySearchItems ==
  /\ Pending("jama_search_items")
  /\ Returns(jama_search_items(inp))

\* ---- jama_delete_item
\* stop_after_attempt(3) of _delete_with_retry
DeleteAttempts == 3

\* a key of the fetched item: missing, or holding True or False
Flags == {"absent", "true", "false"}

\* how get_item ends, the item it returns (its own "locked" key and the
\* "locked" key of its "lock"), what delete_item does at each attempt
DeleteInputs ==
  [get : {"ok", "error"}, item : [locked : Flags, lock_locked : Flags],
   del : [1..DeleteAttempts -> {"ok", "ServerError", "error"}]]

\* jama_update_item: existing_item.get("lock", {}).get("locked")
UpdateRejectsLocked(item) == item.lock_locked = "true"

\* jama_delete_item: existing_item.get("locked")
DeleteRejectsLocked(item) == item.locked = "true"

\* _delete_with_retry: the attempt that ends it, retried on ServerError only
LastDelete(del) ==
  IF \E k \in 1..DeleteAttempts : del[k] # "ServerError"
    THEN CHOOSE k \in 1..DeleteAttempts :
           /\ del[k] # "ServerError"
           /\ \A j \in 1..(k - 1) : del[j] = "ServerError"
    ELSE DeleteAttempts

\* jama_delete_item(ctx, item_id)
jama_delete_item(a) ==
  IF a.get # "ok"
    THEN [raised |-> "NotFoundError", delete_calls |-> 0, success |-> FALSE]
    ELSE IF DeleteRejectsLocked(a.item)
      THEN [raised |-> "ValidationError", delete_calls |-> 0, success |-> FALSE]
      ELSE LET k == LastDelete(a.del)
           IN  [raised |-> CASE a.del[k] = "ok" -> "none"
                             [] a.del[k] = "ServerError" -> "ServerError"
                             [] OTHER -> "Exception",
                delete_calls |-> k,
                success |-> a.del[k] = "ok"]

ApplyDeleteItem ==
  /\ Pending("jama_delete_item")
  /\ Returns(jama_delete_item(inp))

\* ---- check_duplicate_name
\* the longest list of children
MaxChildren == 2

\* an entry of the list get_item_children returns: an item with a name, an
\* item whose name is empty, a dictionary without "fields", one whose fields
\* have no "name", or something that is no dictionary
Children ==
  [kind : {"item"}, name : Names]
    \cup [kind : {"empty_name", "no_fields", "no_name", "not_dict"}, name : {""}]

\* get_item_children returns a list, or raises
DuplicateInputs ==
  [fetch : ClientResults,
   children : UNION {[1..n -> Children] : n \in 0..MaxChildren},
   name : Names]

\* child.get('fields', {}).get('name'): None stands for a missing key
NameOfChild(c) == IF c.kind \in {"item", "empty_name"} THEN c.name ELSE "None"

\* the set comprehension of the names: of the entries that are dictionaries
\* and whose name is true (neither None nor the empty string)
ExistingNames(children) ==
  {NameOfChild(children[k]) :
     k \in {j \in 1..Len(children) :
              /\ children[j].kind # "not_dict"
              /\ NameOfChild(children[j]) \notin {"None", ""}}}

\* variant: a check that could not be made counts as a duplicate
DuplicateWhenUncheckedTrue == TRUE

\* except Exception: return False
DuplicateWhenUnchecked == FALSE

\* check_duplicate_name(ctx, parent_id, item_name)
check_duplicate_name(a) ==
  IF a.fetch # "ok"
    THEN [raised |-> FALSE, returned |-> DuplicateWhenUnchecked]
    ELSE [raised |-> FALSE, returned |-> a.name \in ExistingNames(a.children)]

ApplyCheckDuplicateName ==
  /\ Pending("check_duplicate_name")
  /\ Returns(check_duplicate_name(inp))

\* ---- validate_json_patch(fields_to_json_patch(fields))
\* a dictionary built by fields_to_json_patch as validate_json_patch sees
\* it: its "op", its "path" (an f-string, so a str) and whether it has a
\* "value" key
AsElement(p) ==
  [is_dict |-> TRUE,
   op |-> IF "op" \in DOMAIN p THEN p.op ELSE "absent",
   path |-> IF "path" \in DOMAIN p THEN [type |-> "str", v |-> p.path]
                                   ELSE [type |-> "absent", v |-> ""],
   has_value |-> "value" \in DOMAIN p]

\* validate_json_patch(fields_to_json_patch(fields))
ValidatedPatch(f) ==
  LET r == fields_to_json_patch(f)
  IN  IF r.raised # "none"
        THEN [raised |-> r.raised, index |-> -1, returned |-> FALSE]
        ELSE validate_json_patch(
               [is_list |-> TRUE,
                items |-> [k \in 1..Len(r.value) |-> AsElement(r.value[k])]])

ApplyValidatedPatch ==
  /\ Pending("validate_json_patch(fields_to_json_patch)")
  /\ Returns(ValidatedPatch(inp))

FunctionsInit ==
  /\ out = <<>>
  /\ done = FALSE
  /\ \/ fn = "jama_create_item" /\ inp \in CreateInputs
     \/ fn = "fields_to_json_patch" /\ inp \in FieldMaps
     \/ fn = "jama_update_item" /\ inp \in UpdateInputs
     \/ fn = "handle_http_error" /\ inp \in HttpErrorInputs
     \/ fn = "_make_request" /\ inp \in MethodFailures
     \/ fn = "validate_parent_exists" /\ inp \in ParentInputs
     \/ fn = "validate_json_patch" /\ inp \in PatchInputs
     \/ fn = "server.jama_create_item" /\ inp \in ToolInputs
     \/ fn = "jama_search_items" /\ inp \in SearchInputs
     \/ fn = "jama_delete_item" /\ inp \in DeleteInputs
     \/ fn = "check_duplicate_name" /\ inp \in DuplicateInputs
     \/ fn = "validate_json_patch(fields_to_json_patch)" /\ inp \in FieldMaps

FunctionsNext ==
  \/ ApplyCreateItem
  \/ ApplyFieldsToJsonPatch
  \/ ApplyUpdateItem
  \/ ApplyHandleHttpError
  \/ ApplyMakeRequestExcept
  \/ ApplyValidateParentExists
  \/ ApplyValidateJsonPatch
  \/ ApplyToolCreateItem
  \/ ApplySearchItems
  \/ ApplyDeleteItem
  \/ ApplyCheckDuplicateName
  \/ ApplyValidatedPatch

\* ------------------------------------------------------- specifications
\* the rate limiter used on its own by concurrent callers
Init ==
  RLInit({1, 4}, 1, MaxCalls, "bank") /\ ClientIdle /\ ToolsIdle /\ FunctionsIdle
Next == RLNext /\ UNCHANGED <<clvars, tlvars, fnvars>>
Spec == Init /\ [][Next]_vars
InitWindow ==
  /\ RLInit({Units(DefaultRate)}, 2, WindowCalls, "window")
  /\ ClientIdle /\ ToolsIdle /\ FunctionsIdle
SpecWindow == InitWindow /\ [][Next]_vars

\* one wrapper at 1 request per second, shared by the threads
InitClient ==
  RLInit({2}, 1, MaxRequests, "none") /\ ClientInit /\ ToolsIdle /\ FunctionsIdle
NextClient == ClientNext /\ UNCHANGED <<tlvars, fnvars>>
SpecClient == InitClient /\ [][NextClient]_vars

\* the write tools, called one after the other
InitTools ==
  RLInit({2}, 1, 0, "none") /\ ClientIdle /\ ToolsInit /\ FunctionsIdle
NextTools == ToolsNext /\ UNCHANGED <<rlvars, clvars, fnvars>>
SpecTools == InitTools /\ [][NextTools]_vars

\* the scheduler runs every thread that can take a step, the lock is handed
\* to a thread that keeps asking for it, and time passes
\* the functions, each applied to each of its inputs
InitFunctions ==
  RLInit({2}, 1, 0, "none") /\ ClientIdle /\ ToolsIdle /\ FunctionsInit
NextFunctions == FunctionsNext /\ UNCHANGED <<rlvars, clvars, tlvars>>
SpecFunctions == InitFunctions /\ [][NextFunctions]_vars

ThreadStep(t) ==
  \/ RefillTokens(t) \/ CheckEnough(t) \/ Deduct(t) \/ CheckWait(t)
  \/ Wake(t) \/ CheckFail(t)
InitFair ==
  RLInit({1, 4}, 1, MaxCalls, "none") /\ ClientIdle /\ ToolsIdle /\ FunctionsIdle
SpecFair ==
  /\ InitFair
  /\ [][Next]_vars
  /\ \A t \in Threads : WF_rlvars(ThreadStep(t)) /\ SF_rlvars(TakeLock(t))
  /\ WF_rlvars(Tick)

\* ------------------------------------------------------------- claims
\* C1: a request first takes exactly one rate-limit token, then has its OAuth
\* token checked (and refreshed if needed), then calls the underlying method,
\* once; the method is never called before both earlier steps are complete.
C1_RequestOrder ==
  \A t \in Threads :
    /\ (checked[t] => acq[t] = Units(1))
    /\ (invoked[t] > 0 => (checked[t] /\ acq[t] = Units(1)))
    /\ invoked[t] <= 1
    /\ (rq[t] = "invoke" => (checked[t] /\ invoked[t] = 0))
    /\ (rq[t] = "done" /\ checked[t] /\ outcome[t] # "AttributeError")
         => invoked[t] = 1
C1_Witness ==
  \E t \in Threads :
    /\ rq[t] = "done" /\ invoked[t] = 1 /\ outcome[t] = "returned"
    /\ recreated > 0

\* C2: with the default 9 requests per second, the tokens granted inside any
\* one-second window stay under JAMA's limit of 10 requests per second.
C2_UnderJamaLimit ==
  capacity = Units(DefaultRate) => winCount < Units(JamaLimit)

\* C5: with OAuth and a tracked expiry, a token with less than 5 minutes left
\* is replaced (new client, expiry one hour ahead) before the method is called,
\* so at every call of the method the tracked expiry is at least 5 minutes
\* ahead; without OAuth or without a tracked expiry the client is never
\* re-created.
C5_RefreshBeforeCall ==
  [][/\ (\A t \in Threads :
          (invoked'[t] > invoked[t] /\ oauth /\ has_expiry)
            => life >= TOKEN_REFRESH_THRESHOLD)
      /\ (\A u \in Threads :
          (rq[u] = "acquire" /\ rq'[u] = "invoke" /\ oauth /\ has_expiry
             /\ life < TOKEN_REFRESH_THRESHOLD)
            => (recreated' = recreated + 1 /\ life' = TokenLifetime))
      /\ ((~oauth \/ ~has_expiry) => recreated' = recreated)]_vars
C5_Witness ==
  \E t \in Threads :
    /\ rq[t] = "done" /\ invoked[t] = 1
    /\ recreated > 0 /\ life = TokenLifetime

\* C3: tokens is touched only by the lock holder, 0 <= tokens <= capacity,
\* and the tokens granted never exceed the initial capacity plus the tokens
\* accrued by elapsed time (no token is granted twice).
C3_TokensGuarded ==
  /\ \A t \in Threads : pc[t] \in {"refill", "check", "deduct"} => lock = t
  /\ tokens \in 0..capacity
  /\ bank >= 0
  /\ tokens + NewTokens(elapsed) <= bank
C3_Witness ==
  \E t, u \in Threads :
    /\ pc[t] = "deduct" /\ pc[u] = "lock"
    /\ tokens < want[t] + want[u]

C6_BatchSequential ==
  [][ /\ ((InBatch /\ lastCall' # lastCall /\ lastCall'.m # "none") =>
            /\ bfail = -1
            /\ bidx < blen
            /\ bok = bidx
            /\ lastCall'.entry = bidx
            /\ lastCall'.entry >= lastCall.entry)
      /\ ((InBatch /\ bfail # -1) => lastCall' = lastCall \/ lastCall' = NoCall)
      /\ ((InBatch /\ tool' = tool /\ toolsLeft' = toolsLeft) =>
            /\ bok' >= bok
            /\ bidx' >= bidx)
      /\ (\A n \in Names : store'[n] >= store[n]) ]_vars

\* a batch of three whose second entry failed after the first had finished
C6_Witness ==
  /\ InBatch
  /\ tpc = "end"
  /\ blen = 3
  /\ bfail = 1
  /\ bok = 1
  /\ lastCall.entry = 1

\* C7: a batch of at most 100 entries never raises, and what it returns has
\* total = the input length, succeeded = the number of returned items = the
\* index of the first failing entry (total if none), failed in {0, 1},
\* as many errors as failed, and the error's index = succeeded.
C7_ResultShape ==
  (InBatch /\ blen <= BatchLimit) =>
    /\ raised = "none"
    /\ (tpc = "end" =>
          /\ result.total = blen
          /\ result.succeeded = result.nitems
          /\ result.succeeded = (IF bfail # -1 THEN bfail ELSE blen)
          /\ result.failed \in {0, 1}
          /\ result.failed = (IF bfail # -1 THEN 1 ELSE 0)
          /\ result.nerrors = result.failed
          /\ (result.failed = 1 => result.errindex = result.succeeded)
          /\ (result.failed = 0 => result.succeeded = result.total))

\* a batch update of three returned with its third entry in errors
C7_Witness ==
  /\ tool = "batch_update"
  /\ tpc = "end"
  /\ result.total = 3
  /\ result.succeeded = 2
  /\ result.failed = 1
  /\ result.errindex = 2

\* C8: a batch of more than 100 entries ends with ValueError, no entry
\* looked at and no client call made; a batch of exactly 100 does not raise
\* and, when it returns, reports total 100.
C8_SizeLimit ==
  InBatch =>
    /\ (blen > BatchLimit =>
          /\ tpc = "end"
          /\ raised = "ValueError"
          /\ lastCall = NoCall
          /\ bidx = 0
          /\ bok = 0
          /\ bfail = -1
          /\ result = NoResult)
    /\ (blen = BatchLimit =>
          /\ raised = "none"
          /\ (tpc = "end" => result.total = BatchLimit))

\* a batch of 101 entries was rejected
C8_Witness ==
  /\ tool = "batch_create"
  /\ blen = BatchLimit + 1
  /\ tpc = "end"
  /\ raised = "ValueError"

\* C9: no two items created through the tools have the same name under the
\* same parent.
C9_NoSharedName == \A n \in Names : store[n] <= 1

\* C10: post_item is called only after the parent was validated, the
\* duplicate check returned False and custom_fields was parsed, in this
\* order; a direct call with a missing parent or invalid JSON ends with
\* ValueError and has posted nothing.
C10_PostAfterValidation ==
  /\ (tpc \in {"post", "fetch"} => stages = <<"parent", "duplicate", "json">>)
  /\ (lastCall.m = "post_item" => stages = <<"parent", "duplicate", "json">>)
  /\ (posted > 0 => stages = <<"parent", "duplicate", "json">>)
  /\ ((tool = "create" /\ tpc = "end"
         /\ (args.parent \notin ExistingParents \/ args.cf = "invalid")) =>
        /\ raised = "ValueError"
        /\ posted = 0)

\* a direct jama_create_item returned the item it posted
C10_Witness ==
  /\ tool = "create"
  /\ tpc = "end"
  /\ raised = "none"
  /\ posted = 1
  /\ lastCall.m = "get_item"

\* a step in which create_with_retry made a client call
CreateStep ==
  /\ tool \in {"create", "batch_create"}
  /\ tpc \in {"post", "fetch"}
  /\ lastCall' # lastCall

C12_PostItemRequest ==
  (fn = "jama_create_item" /\ done) =>
    LET src == IF inp.has_fields THEN inp.inner ELSE inp.top
        f == out.post_item.fields
    IN  /\ out.post_item.project = inp.project
        /\ out.post_item.item_type_id = inp.item_type
        /\ out.post_item.child_item_type_id = "None"
        /\ out.post_item.location = [item |-> inp.parent]
        /\ DOMAIN out.post_item = {"project", "item_type_id",
                                   "child_item_type_id", "location", "fields"}
        /\ DOMAIN f \subseteq (DOMAIN src \cup {"name", "description"})
        /\ \A k \in DOMAIN src \ {"name", "description"} :
             k \in DOMAIN f /\ f[k] = src[k]
        /\ "name" \in DOMAIN f /\ f["name"] = inp.name
        /\ (inp.description # "" =>
              "description" \in DOMAIN f /\ f["description"] = inp.description)
        /\ (inp.description = "" =>
              /\ ("description" \in DOMAIN f) = ("description" \in DOMAIN src)
              /\ ("description" \in DOMAIN f => f["description"] = src["description"]))
        /\ out.get_item = inp.new_id
        /\ out.returned = inp.new_id

\* a request built from custom_fields with a "fields" entry that has its own
\* name, with other entries beside it, and with a description argument
C12_Witness ==
  /\ fn = "jama_create_item"
  /\ done
  /\ inp.has_fields
  /\ DOMAIN inp.inner = {"name", "status"}
  /\ DOMAIN inp.top = {"description"}
  /\ inp.description = "d"
  /\ out.post_item.fields = [name |-> "a", status |-> "x", description |-> "d"]

\* ---- jama_update_item

\* the running jama_update_item has called patch_item
Patched == \E k \in 1..Len(stages) : stages[k] = "patch"

\* C13: patch_item is called only after the fields were found non-empty,
\* the pre-update get_item returned and the fetched item was found unlocked;
\* a direct call without fields ends with ValidationError before any client
\* call, one whose pre-update get_item fails ends with NotFoundError, one
\* whose item is locked ends with ValidationError, each without a call of
\* patch_item; inside a batch the same cases fail the entry without a call
\* of patch_item.
C13_PatchAfterChecks ==
  (tool \in {"update", "batch_update"} /\ args.entry # -1) =>
    /\ ((Patched \/ tpc \in {"patch", "ufetch"} \/ lastCall.m = "patch_item") =>
          /\ SubSeq(stages, 1, 3) = <<"fields", "exists", "unlocked">>
          /\ args.cf # "empty")
    /\ Patched = (lastCall.entry = args.entry /\ attempt >= 1
                    /\ (lastCall.m = "patch_item" \/ tpc \in {"ufetch", "end", "loop"}))
    /\ ((args.cf = "empty" /\ tpc # "ucheck") =>
          /\ ~Patched
          /\ lastCall.entry # args.entry
          /\ (tool = "update" => tpc = "end" /\ raised = "ValidationError"
                                   /\ lastCall = NoCall)
          /\ (tool = "batch_update" => bfail = args.entry))
    /\ ((stages = <<"fields">> /\ lastCall.entry = args.entry
           /\ lastCall.r \in {"timeout", "error"}) =>
          /\ ~Patched
          /\ (tool = "update" => tpc = "end" /\ raised = "NotFoundError")
          /\ (tool = "batch_update" => bfail = args.entry))
    /\ ((lastCall.entry = args.entry /\ lastCall.r = "ok_locked") =>
          /\ ~Patched
          /\ stages = <<"fields">>
          /\ (tool = "update" => tpc = "end" /\ raised = "ValidationError")
          /\ (tool = "batch_update" => bfail = args.entry))

\* a direct update of a locked item was refused
C13_Witness ==
  /\ tool = "update"
  /\ tpc = "end"
  /\ lastCall.m = "get_item"
  /\ lastCall.r = "ok_locked"
  /\ raised = "ValidationError"

\* ops holds exactly one operation per field of f, each an "add" of the
\* field's value at /fields/<field name>
OnePerField(f, ops) ==
  /\ Len(ops) = Cardinality(DOMAIN f)
  /\ \A k \in DOMAIN f :
       \E i \in 1..Len(ops) :
         /\ ops[i] = [op |-> "add", path |-> "/fields/" \o k, value |-> f[k]]
         /\ \A j \in 1..Len(ops) : ops[j].path = ops[i].path => j = i

\* fields_to_json_patch raises ValueError on the empty map and returns one
\* operation per field otherwise
PatchPerField ==
  (fn = "fields_to_json_patch" /\ done) =>
    IF DOMAIN inp = {}
      THEN out.raised = "ValueError"
      ELSE out.raised = "none" /\ OnePerField(inp, out.value)

C15_ReturnsFetched ==
  /\ [][ (tool \in {"update", "batch_update"} /\ tpc = "ufetch"
            /\ lastCall' # lastCall /\ lastCall'.r \in {"ok", "ok_warned"}) =>
           /\ lastCall.m = "patch_item" /\ lastCall.r = "ok"
           /\ lastCall'.m = "get_item"
           /\ raised' = "none"
           /\ bfail' = -1
           /\ (tool = "update" => tpc' = "end")
           /\ (tool = "batch_update" => tpc' = "loop" /\ bok' = bok + 1) ]_vars
  /\ []((tool = "update" /\ lastCall.r = "ok_warned") =>
          (tpc = "end" /\ raised = "none"))

\* a direct update returned an item whose version had not increased
C15_Witness ==
  /\ tool = "update"
  /\ tpc = "end"
  /\ raised = "none"
  /\ lastCall.m = "get_item"
  /\ lastCall.r = "ok_warned"

\* ---- error taxonomy

\* C16: handle_http_error returns, for every status code, an error of the
\* class of that code: 400 ValidationError, 401 AuthenticationError, 403
\* PermissionError, 404 NotFoundError, 409 ConflictError, 429
\* RateLimitError, 500..599 ServerError, any other code JamaError; its
\* details hold the status code and the response text.
C16_ErrorClass ==
  (fn = "handle_http_error" /\ done) =>
    LET c == inp.status_code
    IN  /\ out.class =
             CASE c = 400 -> "ValidationError"
               [] c = 401 -> "AuthenticationError"
               [] c = 403 -> "PermissionError"
               [] c = 404 -> "NotFoundError"
               [] c = 409 -> "ConflictError"
               [] c = 429 -> "RateLimitError"
               [] c \in 500..599 -> "ServerError"
               [] OTHER -> "JamaError"
        /\ out.details = [status_code |-> c, response |-> inp.response_text]

\* status 599 with an empty response text gave a ServerError
C16_Witness ==
  /\ fn = "handle_http_error"
  /\ done
  /\ inp.status_code = 599
  /\ inp.response_text = ""
  /\ out.class = "ServerError"
  /\ out.message = "HTTP 599: Server error - "

\* C17: a failure of the underlying client with status 400, 401, 403, 404,
\* 409, 429 or 5xx leaves _make_request as the error class of that status,
\* and a failure without a status leaves it unchanged.
C17_StatusSurfaces ==
  (fn = "_make_request" /\ done) =>
    LET c == inp.status
    IN  /\ (c = 400 => out.class = "ValidationError")
        /\ (c = 401 => out.class = "AuthenticationError")
        /\ (c = 403 => out.class = "PermissionError")
        /\ (c = 404 => out.class = "NotFoundError")
        /\ (c = 409 => out.class = "ConflictError")
        /\ (c = 429 => out.class = "RateLimitError")
        /\ (c \in 500..599 => out.class = "ServerError")
        /\ (c = 0 => out.class = inp.class /\ out.message = inp.message)

\* ---- validation

\* C18: validate_parent_exists returns exactly when the lookup yields an
\* item; otherwise it raises ValueError: 'Parent item <id> not found' when
\* the lookup is empty or its error mentions 404 / not found, else
\* 'Permission denied for parent item <id>' when the error mentions 403 /
\* permission, else 'Unable to validate parent item <id>: <error>'.
C18_ParentValidation ==
  (fn = "validate_parent_exists" /\ done) =>
    LET l == inp.lookup
        id == inp.parent_id
    IN  /\ (out.raised = "none") = (l.kind = "item")
        /\ (l.kind # "item" => out.raised = "ValueError")
        /\ ((l.kind = "empty" \/ (l.kind = "error" /\ l.nf)) =>
              out.message = "Parent item " \o id \o " not found")
        /\ ((l.kind = "error" /\ ~l.nf /\ l.perm) =>
              out.message = "Permission denied for parent item " \o id)
        /\ ((l.kind = "error" /\ ~l.nf /\ ~l.perm) =>
              out.message = "Unable to validate parent item " \o id \o ": " \o l.message)

\* a lookup error that says 'Not Found' in capitals was reported as not found
C18_Witness ==
  /\ fn = "validate_parent_exists"
  /\ done
  /\ inp.lookup.message = "Resource Not Found"
  /\ out.raised = "ValueError"
  /\ out.message = "Parent item 28 not found"

\* element e of a patch list is a dictionary with an op of RFC 6902, a path
\* that starts with '/', and a value unless the op is remove
WellFormedOp(e) ==
  /\ e.is_dict
  /\ e.op \in {"replace", "add", "remove", "copy", "move", "test"}
  /\ e.path.type = "str"
  /\ Len(e.path.v) > 0
  /\ SubSeq(e.path.v, 1, 1) = "/"
  /\ (e.op # "remove" => e.has_value)

\* C19: validate_json_patch returns True exactly when its argument is a
\* non-empty list of well-formed operations; for every other argument it
\* raises ValueError, and when elements are at fault, for the first of them.
C19_ValidatesPatch ==
  (fn = "validate_json_patch" /\ done) =>
    LET q == inp.items
        valid == /\ inp.is_list
                 /\ Len(q) > 0
                 /\ \A k \in 1..Len(q) : WellFormedOp(q[k])
    IN  /\ out.returned = valid
        /\ (valid => out.raised = "none")
        /\ (~valid => out.raised = "ValueError")
        /\ ((inp.is_list /\ Len(q) > 0 /\ ~valid) =>
              /\ out.index + 1 \in 1..Len(q)
              /\ ~WellFormedOp(q[out.index + 1])
              /\ \A j \in 1..out.index : WellFormedOp(q[j]))

\* ---- server tools

\* C20: the jama_create_item tool hands each of its arguments to the
\* parameter of the same name of write_tools.jama_create_item, and the
\* post_item request is the one a direct call with these arguments builds.
C20_ToolForwards ==
  (fn = "server.jama_create_item" /\ done) =>
    /\ out.received.project = inp.project
    /\ out.received.item_type = inp.item_type
    /\ out.received.name = inp.name
    /\ out.received.parent = inp.parent
    /\ out.received.description = inp.description
    /\ out.post_item = PostItemCall(WithNoCustomFields(inp))

\* C21: jama_search_items returns at most min(max_results, 50) items, those
\* of the full result list from offset start_at on, with startIndex =
\* start_at, resultCount = the number of items returned and totalResults =
\* the size of the full list.
C21_SearchPage ==
  (fn = "jama_search_items" /\ done) =>
    LET size == Max(Min(inp.max_results, 50), 0)
    IN  /\ Len(out.data) <= size
        /\ out.data = SubSeq(inp.data, inp.start_at + 1,
                             Min(inp.start_at + size, Len(inp.data)))
        /\ out.startIndex = inp.start_at
        /\ out.resultCount = Len(out.data)
        /\ out.totalResults = Len(inp.data)

\* C22: try_acquire(n) never sleeps; the step that returns from it either
\* returns True and deducts exactly n tokens, when the refilled tokens are
\* at least n, or returns False and leaves the tokens as they are, when
\* they are fewer than n; in both cases the lock is free after the step.
C22_TryAcquire ==
  /\ \A t \in Threads :
       op[t] = "try_acquire" => (pc[t] # "sleep" /\ remaining[t] = 0)
  /\ [][\A t \in Threads :
          (op[t] = "try_acquire" /\ pc[t] # "idle" /\ pc'[t] = "idle")
            => /\ lock = t /\ lock' = "free"
               /\ IF tokens >= want[t]
                    THEN ret' = "True" /\ tokens' = tokens - want[t]
                    ELSE ret' = "False" /\ tokens' = tokens]_vars
C22_Witness ==
  /\ ret = "False"
  /\ lock = "free"
  /\ tokens > 0
  /\ \A t \in Threads : pc[t] = "idle"

\* C23: within one jama_create_item invocation post_item completes
\* successfully at most once, whatever timeouts or connection errors occur
\* in post_item or in the follow-up get_item.
C23_PostedOnce ==
  tool \in {"create", "batch_create"} => posted <= 1

\* a step in which _update_with_retry called patch_item
PatchStep ==
  /\ tool \in {"update", "batch_update"}
  /\ tpc = "patch"
  /\ lastCall' # lastCall

\* the patch_item calls made so far for the running item
PatchCalls == Cardinality({k \in 1..Len(stages) : stages[k] = "patch"})

C25_LockedNotDeleted ==
  (fn = "jama_delete_item" /\ done) =>
    /\ (inp.get # "ok" =>
          (out.raised = "NotFoundError" /\ out.delete_calls = 0))
    /\ ((inp.get = "ok" /\ (inp.item.locked = "true"
                              \/ UpdateRejectsLocked(inp.item))) =>
          (out.raised # "none" /\ out.delete_calls = 0))

\* C26: when the proactive OAuth refresh fails, _make_request raises
\* AuthenticationError without invoking the underlying method; the client
\* object and the tracked expiry stay as they were, so that a refresh is
\* still due for the next request; the token taken from the rate limiter
\* for the failed request is not given back, neither then nor when the
\* request is over.
C26_RefreshFails ==
  /\ \A t \in Threads :
       outcome[t] = "AuthenticationError" => (invoked[t] = 0 /\ acq[t] = Units(1))
  /\ [][\A t \in Threads :
          (rq[t] = "acquire" /\ rq'[t] = "done") =>
            /\ NeedsRefresh
            /\ outcome'[t] = "AuthenticationError"
            /\ invoked'[t] = 0
            /\ recreated' = recreated
            /\ has_expiry' = has_expiry
            /\ life' = life
            /\ NeedsRefresh'
            /\ acq[t] = Units(1)
            /\ tokens' = tokens]_vars
  /\ [][\A t \in Threads :
          (outcome[t] = "AuthenticationError" /\ rq[t] = "done" /\ rq'[t] = "none")
            => tokens' = tokens]_vars

\* a request ended with the failed refresh, which is still due
C26_Witness ==
  \E t \in Threads :
    /\ rq[t] = "done"
    /\ outcome[t] = "AuthenticationError"
    /\ invoked[t] = 0
    /\ acq[t] = Units(1)
    /\ recreated = 0
    /\ NeedsRefresh

\* C27: check_duplicate_name never raises; it returns True exactly when the
\* children were fetched and one of them has a fields.name equal to the
\* given name, and False when none has or when the fetch failed.
C27_DuplicateCheck ==
  (fn = "check_duplicate_name" /\ done) =>
    /\ ~out.raised
    /\ out.returned =
         (/\ inp.fetch = "ok"
          /\ \E k \in 1..Len(inp.children) :
               /\ inp.children[k].kind \in {"item", "empty_name"}
               /\ inp.children[k].name = inp.name)

\* the fetch failed although a child of that name exists: False
C27_Witness ==
  /\ fn = "check_duplicate_name"
  /\ done
  /\ inp.fetch = "timeout"
  /\ Len(inp.children) = 2
  /\ inp.children[1].kind = "not_dict"
  /\ inp.children[2] = [kind |-> "item", name |-> inp.name]
  /\ out.returned = FALSE

\* C28: for every positive requests_per_second, rates below 1 included, a
\* request's acquire() of one token eventually returns.
C28_OneTokenReturns ==
  \A t \in Threads :
    (op[t] = "acquire" /\ want[t] = Units(1)) ~> (pc[t] = "idle")

\* C29: for every non-empty fields map, validate_json_patch accepts what
\* fields_to_json_patch makes of it: it returns True and raises nothing.
C29_PatchAccepted ==
  (fn = "validate_json_patch(fields_to_json_patch)" /\ done /\ DOMAIN inp # {}) =>
    (out.returned = TRUE /\ out.raised = "none")

\* two fields, one an int and one a str, were converted and accepted
C29_Witness ==
  /\ fn = "validate_json_patch(fields_to_json_patch)"
  /\ done
  /\ DOMAIN inp = {"name", "status"}
  /\ inp["name"].type = "int"
  /\ inp["status"].type = "str"
  /\ out.returned = TRUE

====
